---- MODULE Spec2Model ----
(***************************************************************************)
(* simEd: stream-partitioned random-variate generation.                    *)
(*                                                                         *)
(* The model follows src/simEd/generators/rng_mt19937.py (class rng: the   *)
(* table of streams, set_seed, uniform), generators.py (set_seed,          *)
(* _generateUniforms), generators_continuous.py / generators_discrete.py   *)
(* (vunif, vexp, vnorm, vbinom) and utils/_error_checks.py (_checkType,    *)
(* _checkRange).                                                           *)
(*                                                                         *)
(* A bit generator is the pair (root, pos): the seed it was built from and *)
(* how many doubles of that seed's output sequence lie behind it.  A       *)
(* uniform in [0,1) is kept as its numerator m over Scale (numpy: m over   *)
(* 2^53), so 1 - u is Scale - m.  Python values that reach the type checks *)
(* are kept as [kind, val].                                                *)
(*                                                                         *)
(* Spec  : set_seed and direct calls of _generateUniforms, in any order.  *)
(* SpecV : set_seed and the variate functions vunif, vexp, vbinom, vnorm.  *)
(***************************************************************************)
EXTENDS Integers, Sequences

\* ---------------------------------------------------------------- bounds
\* rng._num_streams, 128 in the source, scaled down
num_streams == 2
\* doubles skipped by one jumped() (2^127 doubles for MT19937), scaled down
JumpLen == 2
\* draws served, over all streams, between two set_seed calls
MaxDraws == 3
\* integer seeds and entropy values are 0..MaxSeed
MaxSeed == 1
\* resolution of the uniform grid: u = m / Scale, m in 0..Scale-1
Scale == 2
\* largest count n passed to a generating call
MaxN == 2

VARIABLES
    streams,    \* rng._streams: the table, index 0..num_streams-1
    salt,       \* which output function the bit generator family realises
    ret,        \* the last call: its name, arguments and outcome
    consumed,   \* history: per table slot, the draws served since the last set_seed
    epoch,      \* history: the seed of the last completed set_seed
    pkg,        \* the _streams table of the class bound in the package namespace
    pc          \* how far the import of the package has run

vars == <<streams, salt, ret, consumed, epoch, pkg, pc>>

Slots == 0 .. (num_streams - 1)
Seeds == 0 .. MaxSeed
Grid  == 0 .. (Scale - 1)

\* ------------------------------------------------------- python values
PyInt(v)   == [kind |-> "int",   val |-> v]
PyFloat(v) == [kind |-> "float", val |-> v]     \* val counts halves: 3 is 1.5
PyBool(b)  == [kind |-> "bool",  val |-> IF b THEN 1 ELSE 0]
PyStr      == [kind |-> "str",   val |-> 0]     \* a non-empty string
PyArray    == [kind |-> "array", val |-> 0]     \* a numpy array of two elements
PyNone     == [kind |-> "None",  val |-> 0]

\* ------------------------------------------------------ bit generators
\* the class-level placeholder: _streams = [None] * _num_streams
NoneGen == [live |-> FALSE, root |-> 0, pos |-> 0]

NoneTable == [i \in Slots |-> NoneGen]

\* MT19937(SeedSequence(seed)): the root generator of a seed
MT19937(seed) == [root |-> seed, pos |-> 0]

\* Generator(bit_generator)
Generator(bg) == [live |-> TRUE, root |-> bg.root, pos |-> bg.pos]

jumped_nowhere(bg) == bg

\* bit_generator.jumped(): a copy, one jump further along the root sequence
jumped(bg) == [root |-> bg.root, pos |-> bg.pos + JumpLen]

\* the output of the root sequence of a seed at a position, as a numerator
\* over Scale: a fixed function of (seed, position), one per salt
next_double(root, pos) == (salt + root * (pos + 1) + pos) % Scale

\* ------------------------------------------------------- rng.set_seed
RECURSIVE set_seed_skip_first(_, _, _)
set_seed_skip_first(tbl, bg, i) ==
    IF i >= num_streams THEN tbl
    ELSE set_seed_skip_first(
            IF i = 0 /\ tbl[i].live THEN tbl ELSE [tbl EXCEPT ![i] = Generator(bg)],
            jumped(bg), i + 1)

\* for i in range(cls._num_streams): _streams[i] = Generator(bg); bg = bg.jumped()
RECURSIVE set_seed_loop(_, _, _)
set_seed_loop(tbl, bg, i) ==
    IF i >= num_streams THEN tbl
    ELSE set_seed_loop([tbl EXCEPT ![i] = Generator(bg)], jumped(bg), i + 1)

\* rng.set_seed with the entropy SeedSequence settled on: numpy's SeedSequence
\* refuses a negative integer before the table is touched
rng_set_seed(tbl, entropy) ==
    IF entropy < 0
    THEN [status |-> "ValueError", streams |-> tbl]
    ELSE [status |-> "ok", streams |-> set_seed_loop(tbl, MT19937(entropy), 0)]

\* -------------------------------------------------------- rng.uniform
\* cls._streams[which_stream]: a python list index; -1 stands for IndexError
ListIndex(len, i) ==
    IF i >= len \/ i < -len THEN -1
    ELSE IF i < 0 THEN len + i ELSE i

advance_two(g) == [g EXCEPT !.pos = @ + 2]

\* the generator after serving one double
advance(g) == [g EXCEPT !.pos = @ + 1]

\* rng.uniform(a, b, which_stream): a + (b - a) * u from the slot's generator
rng_uniform(tbl, a, b, which_stream) ==
    LET idx == ListIndex(num_streams, which_stream) IN
    IF idx = -1
    THEN [status |-> "IndexError", val |-> 0, streams |-> tbl, slot |-> -1, at |-> <<0, 0>>]
    ELSE IF ~tbl[idx].live
    THEN [status |-> "AttributeError", val |-> 0, streams |-> tbl, slot |-> -1, at |-> <<0, 0>>]
    ELSE LET g == tbl[idx]
             m == next_double(g.root, g.pos)
         IN [status  |-> "ok",
             val     |-> a * Scale + (b - a) * m,
             streams |-> [tbl EXCEPT ![idx] = advance(g)],
             slot    |-> idx,
             at      |-> <<g.root, g.pos>>]

\* -------------------------------------------------- _generateUniforms
keep(u) == u

\* if antithetic: u = 1 - u
complement(u) == Scale - u

\* one pass of the loop body of _generateUniforms, st the state so far
draw_step(st, stream, antithetic) ==
    LET r == rng_uniform(st.streams, 0, 1, stream) IN
    IF r.status # "ok"
    THEN [st EXCEPT !.status = r.status]
    ELSE [status  |-> "ok",
          u       |-> Append(st.u, IF antithetic THEN complement(r.val) ELSE r.val),
          streams |-> r.streams,
          taken   |-> Append(st.taken, [slot |-> r.slot, at |-> r.at, raw |-> r.val])]

RECURSIVE draw_loop(_, _, _, _)
draw_loop(st, k, stream, antithetic) ==
    IF k <= 0 \/ st.status # "ok" THEN st
    ELSE draw_loop(draw_step(st, stream, antithetic), k - 1, stream, antithetic)

\* _generateUniforms(n, stream, antithetic): a scalar when n == 1, else a list
\* built by range(n) passes (empty when n <= 0)
generateUniforms(tbl, n, stream, antithetic) ==
    LET st0 == [status |-> "ok", u |-> <<>>, streams |-> tbl, taken |-> <<>>]
        st  == IF n = 1 THEN draw_step(st0, stream, antithetic)
               ELSE draw_loop(st0, n, stream, antithetic)
    IN [status  |-> st.status,
        shape   |-> IF n = 1 THEN "scalar" ELSE "list",
        u       |-> st.u,
        streams |-> st.streams,
        taken   |-> st.taken]

\* the history of draws, each appended to the slot that served it
RECURSIVE Record(_, _)
Record(hist, taken) ==
    IF taken = <<>> THEN hist
    ELSE LET t == Head(taken) IN
         Record([hist EXCEPT ![t.slot] = Append(@, <<t.at[1], t.at[2], t.raw>>)], Tail(taken))

\* -------------------------------------------------------- _checkType
\* the keys of type_map that python values of the model can meet
MapKeys == {"int", "float"}

\* type_map[type_] for the keys above: float -> int, int -> int
TypeMapOf(t) == "int"

\* isinstance(obj, t): bool is a subclass of int
IsInstance(obj, t) ==
    \/ t = "int"   /\ obj.kind \in {"int", "bool"}
    \/ t = "float" /\ obj.kind = "float"
    \/ t = "bool"  /\ obj.kind = "bool"

\* _checkTypeMap(obj, type_): "bad" is the function returning True; the lookup
\* type_map[type_] raises KeyError when only type(obj) is a key
checkTypeMap(obj, t) ==
    IF t \in MapKeys \/ obj.kind \in MapKeys
    THEN IF t \notin MapKeys THEN "KeyError"
         ELSE IF IsInstance(obj, t) \/ IsInstance(obj, TypeMapOf(t)) THEN "ok" ELSE "bad"
    ELSE IF IsInstance(obj, t) THEN "ok" ELSE "bad"

\* _checkType(obj, type_): types is the one type, or the members of the union
checkType(obj, types) ==
    IF \E k \in DOMAIN types : checkTypeMap(obj, types[k]) = "KeyError" THEN "KeyError"
    ELSE IF \E k \in DOMAIN types : checkTypeMap(obj, types[k]) = "ok" THEN "ok"
    ELSE "TypeError"

\* ------------------------------------------------------------- the calls
NoArg == [kind |-> "absent", val |-> 0]

BlankRet ==
    [fn |-> "load", status |-> "ok", site |-> "", seed |-> NoArg, n |-> NoArg,
     stream |-> NoArg, antithetic |-> NoArg, as_dict |-> NoArg, par |-> <<>>,
     shape |-> "", u |-> <<>>, mapping |-> FALSE, xshape |-> "", x |-> <<>>]

\* the seeds a caller may pass: None, integers, a negative integer, a string
SeedInputs == {PyNone, PyStr, PyInt(-1)} \cup {PyInt(s) : s \in Seeds}

\* whether the table being replaced had been seeded and drawn from
Used == \E i \in Slots : consumed[i] # <<>>

\* SeedSequence(seed): the entropy values a seed may stand for; a missing seed
\* takes fresh entropy from the operating system
SeedSequence(seed) == IF seed.kind = "None" THEN Seeds ELSE {seed.val}

\* generators.set_seed(seed): the type check, then rng.set_seed
SetSeed ==
    \E seed \in SeedInputs :
      \E e \in SeedSequence(seed) :
        LET typed == IF seed.kind # "None" THEN checkType(seed, <<"int">>) ELSE "ok"
            r     == rng_set_seed(streams, e)
            call  == [BlankRet EXCEPT !.fn = "set_seed", !.seed = seed]
        IN /\ salt' = salt
           /\ UNCHANGED <<pkg, pc>>
           /\ IF typed # "ok"
              THEN /\ ret' = [call EXCEPT !.status = typed, !.site = "type"]
                   /\ UNCHANGED <<streams, consumed, epoch>>
              ELSE IF r.status # "ok"
              THEN /\ ret' = [call EXCEPT !.status = r.status, !.site = "seed"]
                   /\ UNCHANGED <<streams, consumed, epoch>>
              ELSE /\ ret' = call
                   /\ streams' = r.streams
                   /\ consumed' = [i \in Slots |-> <<>>]
                   /\ epoch' = [kind  |-> IF seed.kind = "None" THEN "entropy" ELSE "int",
                                val   |-> e,
                                after |-> Used]

RECURSIVE Total(_, _)
Total(hist, i) == IF i >= num_streams THEN 0 ELSE Len(hist[i]) + Total(hist, i + 1)

\* at most MaxDraws draws are served between two set_seed calls
WithinDraws(hist) == Total(hist, 0) <= MaxDraws

\* the stream indices a caller may pass: the slots, and out of bounds below
\* (-1) and above (num_streams)
StreamInputs == Slots \cup {-1, num_streams}

\* a direct call of _generateUniforms(n, stream, antithetic)
GenerateUniforms ==
    \E n \in 0 .. MaxN, stream \in StreamInputs, antithetic \in BOOLEAN :
        LET r == generateUniforms(streams, n, stream, antithetic) IN
        /\ WithinDraws(Record(consumed, r.taken))
        /\ streams' = r.streams
        /\ consumed' = Record(consumed, r.taken)
        /\ ret' = [BlankRet EXCEPT !.fn = "_generateUniforms", !.status = r.status,
                                   !.site = IF r.status = "ok" THEN "" ELSE "draw",
                                   !.n = PyInt(n), !.stream = PyInt(stream),
                                   !.antithetic = PyBool(antithetic),
                                   !.shape = IF r.status = "ok" THEN r.shape ELSE "",
                                   !.u = IF r.status = "ok" THEN r.u ELSE <<>>]
        /\ UNCHANGED <<salt, epoch, pkg, pc>>

\* ------------------------------------------------------- _checkRange
\* twice the number a python int or float stands for (a float counts halves)
Twice(obj) == IF obj.kind = "float" THEN obj.val ELSE 2 * obj.val

below_min_inclusive_only(obj, min_, include_min) == Twice(obj) < Twice(min_)

\* (include_min and obj < min_) or (not include_min and obj <= min_)
below_min(obj, min_, include_min) ==
    \/ include_min /\ Twice(obj) < Twice(min_)
    \/ ~include_min /\ Twice(obj) <= Twice(min_)

\* (include_max and obj > max_) or (not include_max and obj >= max_)
above_max(obj, max_, include_max) ==
    \/ include_max /\ Twice(obj) > Twice(max_)
    \/ ~include_max /\ Twice(obj) >= Twice(max_)

\* _checkRange(obj, min_, max_, msg, include_min, include_max); PyNone for a
\* bound not given
checkRange(obj, min_, max_, include_min, include_max) ==
    LET typed == IF min_.kind # "None" \/ max_.kind # "None"
                 THEN checkType(obj, <<"int", "float">>) ELSE "ok"
    IN IF typed # "ok" THEN typed
       ELSE IF min_.kind # "None" /\ below_min(obj, min_, include_min) THEN "ValueError"
       ELSE IF max_.kind # "None" /\ above_max(obj, max_, include_max) THEN "ValueError"
       ELSE "ok"

\* --------------------------------------------------- variate functions
Typed(obj, types) == [site |-> "type", status |-> checkType(obj, types)]
Ranged(obj, min_, max_, include_min) ==
    [site |-> "range", status |-> checkRange(obj, min_, max_, include_min, TRUE)]

\* max_stream = rng.numStreams() - 1
max_stream == PyInt(num_streams - 1)

\* the checks of vunif in the order of the code; par = <<min_, max_>>
vunif_checks(a) ==
    << Typed(a.n, <<"int">>), Typed(a.stream, <<"int">>),
       Typed(a.par[1], <<"float">>), Typed(a.par[2], <<"float">>),
       Typed(a.antithetic, <<"bool">>), Typed(a.as_dict, <<"bool">>),
       Ranged(a.n, PyInt(1), PyNone, TRUE),
       Ranged(a.par[2], a.par[1], PyNone, TRUE),
       Ranged(a.stream, PyInt(0), max_stream, TRUE) >>

\* the checks of vexp; par = <<rate>>
vexp_checks(a) ==
    << Typed(a.n, <<"int">>), Typed(a.stream, <<"int">>),
       Typed(a.par[1], <<"float", "int">>),
       Typed(a.antithetic, <<"bool">>), Typed(a.as_dict, <<"bool">>),
       Ranged(a.n, PyInt(1), PyNone, TRUE),
       Ranged(a.par[1], PyInt(0), PyNone, FALSE),
       Ranged(a.stream, PyInt(0), max_stream, TRUE) >>

\* the checks of vbinom; par = <<size, prob>>
vbinom_checks(a) ==
    << Typed(a.n, <<"int">>), Typed(a.par[1], <<"int">>), Typed(a.stream, <<"int">>),
       Typed(a.par[2], <<"float">>),
       Typed(a.antithetic, <<"bool">>), Typed(a.as_dict, <<"bool">>),
       Ranged(a.n, PyInt(1), PyNone, TRUE),
       Ranged(a.par[1], PyInt(0), PyNone, TRUE),
       Ranged(a.par[2], PyInt(0), PyInt(1), FALSE),
       Ranged(a.stream, PyInt(0), max_stream, TRUE) >>

\* the checks of vnorm; par = <<mean, sd>>.  The loop over
\* [antithetic, as_dict] checks antithetic on both passes.
vnorm_checks(a) ==
    << Typed(a.n, <<"int">>), Typed(a.stream, <<"int">>),
       Typed(a.par[1], <<"float", "int">>), Typed(a.par[2], <<"float", "int">>),
       Typed(a.antithetic, <<"bool">>), Typed(a.antithetic, <<"bool">>),
       Ranged(a.n, PyInt(1), PyNone, TRUE),
       Ranged(a.par[2], PyInt(0), PyNone, FALSE),
       Ranged(a.stream, PyInt(0), max_stream, TRUE) >>

Passed == [site |-> "", status |-> "ok"]

\* the first check that raises, in the order of the code
FirstBad(checks) ==
    LET bad == {k \in DOMAIN checks : checks[k].status # "ok"} IN
    IF bad = {} THEN Passed
    ELSE checks[CHOOSE k \in bad : \A j \in bad : k <= j]

\* the truth value python takes of an object in "if as_dict:"; an array of
\* more than one element raises ValueError
Truth(obj) ==
    IF obj.kind = "array" THEN "raise"
    ELSE IF obj.kind = "str" THEN "true"
    ELSE IF obj.kind = "None" THEN "false"
    ELSE IF obj.val # 0 THEN "true" ELSE "false"

\* dist.ppf(u, ...): the quantile image of one uniform, kept as a term
ppf(fn, par, u) == [dist |-> fn, par |-> par, u |-> u]

\* the body shared by the four functions once the checks have passed:
\* u = _generateUniforms(n, stream, antithetic); x = ppf(u, ...).tolist();
\* if as_dict: return {"u": u, "x": x}; return x
variate(fn, tbl, a, checks) ==
    LET bad  == FirstBad(checks)
        none == [status |-> "ok", site |-> "", streams |-> tbl, taken |-> <<>>,
                 mapping |-> FALSE, shape |-> "", u |-> <<>>, xshape |-> "", x |-> <<>>]
    IN IF bad.status # "ok"
       THEN [none EXCEPT !.status = bad.status, !.site = bad.site]
       ELSE LET g == generateUniforms(tbl, a.n.val, a.stream.val, a.antithetic.val = 1)
                x == [k \in DOMAIN g.u |-> ppf(fn, a.par, g.u[k])]
                t == Truth(a.as_dict)
            IN IF g.status # "ok"
               THEN [none EXCEPT !.status = g.status, !.site = "draw",
                                 !.streams = g.streams, !.taken = g.taken]
               ELSE IF t = "raise"
               THEN [none EXCEPT !.status = "ValueError", !.site = "return",
                                 !.streams = g.streams, !.taken = g.taken]
               ELSE IF t = "true"
               THEN [none EXCEPT !.streams = g.streams, !.taken = g.taken,
                                 !.mapping = TRUE, !.shape = g.shape, !.u = g.u,
                                 !.xshape = g.shape, !.x = x]
               ELSE [none EXCEPT !.streams = g.streams, !.taken = g.taken,
                                 !.xshape = g.shape, !.x = x]

\* arguments a caller may pass
NInputs      == {PyInt(k) : k \in 0 .. MaxN} \cup {PyStr}
StreamArgs   == {PyInt(k) : k \in StreamInputs} \cup {PyFloat(1)}
FlagInputs   == {PyBool(TRUE), PyBool(FALSE), PyInt(1), PyStr}
AsDictInputs == {PyBool(TRUE), PyBool(FALSE), PyStr, PyArray}

\* no variate function has been called since loading or the last completed
\* set_seed
Callable == ret.fn \in {"load", "set_seed"} /\ ret.status = "ok"

\* one call of a variate function
Call(fn, a, r) ==
    /\ WithinDraws(Record(consumed, r.taken))
    /\ streams' = r.streams
    /\ consumed' = Record(consumed, r.taken)
    /\ ret' = [BlankRet EXCEPT !.fn = fn, !.status = r.status, !.site = r.site,
                               !.n = a.n, !.stream = a.stream,
                               !.antithetic = a.antithetic, !.as_dict = a.as_dict,
                               !.par = a.par, !.shape = r.shape, !.u = r.u,
                               !.mapping = r.mapping, !.xshape = r.xshape, !.x = r.x]
    /\ UNCHANGED <<salt, epoch, pkg, pc>>

Args(par) ==
    {[n |-> n, stream |-> st, antithetic |-> an, as_dict |-> ad, par |-> par] :
        n \in NInputs, st \in StreamArgs, an \in FlagInputs, ad \in AsDictInputs}

Vunif ==
    /\ Callable
    /\ \E par \in {<<PyFloat(0), PyFloat(2)>>, <<PyFloat(2), PyFloat(2)>>,
                <<PyFloat(2), PyFloat(0)>>} :
      \E a \in Args(par) : Call("vunif", a, variate("vunif", streams, a, vunif_checks(a)))

Vexp ==
    /\ Callable
    /\ \E rate \in {PyFloat(0), PyFloat(1), PyInt(1)} :
      \E a \in Args(<<rate>>) : Call("vexp", a, variate("vexp", streams, a, vexp_checks(a)))

Vbinom ==
    /\ Callable
    /\ \E size \in {PyInt(-1), PyInt(0)},
       prob \in {PyFloat(0), PyFloat(1), PyFloat(2), PyFloat(3)} :
      \E a \in Args(<<size, prob>>) :
        Call("vbinom", a, variate("vbinom", streams, a, vbinom_checks(a)))

Vnorm ==
    /\ Callable
    /\ \E sd \in {PyInt(0), PyFloat(0), PyFloat(2)} :
      \E a \in Args(<<PyFloat(0), sd>>) :
        Call("vnorm", a, variate("vnorm", streams, a, vnorm_checks(a)))

\* the class as defined: every slot the None placeholder, nothing called yet
Init ==
    /\ streams = NoneTable
    /\ salt \in Grid
    /\ ret = BlankRet
    /\ consumed = [i \in Slots |-> <<>>]
    /\ epoch = [kind |-> "none", val |-> 0, after |-> FALSE]
    /\ pkg = NoneTable
    /\ pc = "defined"

Next == SetSeed \/ GenerateUniforms

Spec == Init /\ [][Next]_vars

\* seeding, and one call of a variate function after each completed seeding
NextV == SetSeed \/ Vunif \/ Vexp \/ Vbinom \/ Vnorm

SpecV == Init /\ [][NextV]_vars

\* ------------------------------------------------- importing the package
\* nothing imported yet
InitLoad ==
    /\ streams = NoneTable
    /\ salt \in Grid
    /\ ret = BlankRet
    /\ consumed = [i \in Slots |-> <<>>]
    /\ epoch = [kind |-> "none", val |-> 0, after |-> FALSE]
    /\ pkg = NoneTable
    /\ pc = "start"

\* generators/__init__.py: "from .rng_mt19937 import rng" defines the class
\* of the module simEd.generators.rng_mt19937, and "rng.set_seed(None)" fills
\* the table of that class from fresh entropy
LoadPackage ==
    /\ pc = "start"
    /\ \E e \in SeedSequence(PyNone) :
         LET r == rng_set_seed(pkg, e) IN
         /\ pkg' = r.streams
         /\ ret' = [BlankRet EXCEPT !.fn = "rng.set_seed", !.seed = PyNone,
                                    !.status = r.status]
    /\ pc' = "seeded"
    /\ UNCHANGED <<streams, salt, consumed, epoch>>

\* generators/__init__.py: "from .generators import set_seed, _generateUniforms"
\* runs generators.py, whose "from rng_mt19937 import rng" names a top-level
\* module. Where the search path does not hold the directory of the file the
\* import raises; where it does, the file is run a second time under the
\* name rng_mt19937 and set_seed and _generateUniforms are bound to the class
\* of that module, whose table is the one its class statement builds
LoadGenerators ==
    /\ pc = "seeded"
    /\ \E on_path \in BOOLEAN :
         IF on_path
         THEN /\ streams' = NoneTable
              /\ ret' = [BlankRet EXCEPT !.fn = "import generators"]
              /\ pc' = "generators"
         ELSE /\ streams' = streams
              /\ ret' = [BlankRet EXCEPT !.fn = "import generators",
                                         !.status = "ModuleNotFoundError",
                                         !.site = "import"]
              /\ pc' = "no_module"
    /\ UNCHANGED <<salt, consumed, epoch, pkg>>

\* the call at the end of generators_continuous.py:
\* vnorm(10, 2.5, 0, -1, True, True)
load_call ==
    [n |-> PyInt(10), stream |-> PyInt(-1), antithetic |-> PyBool(TRUE),
     as_dict |-> PyBool(TRUE), par |-> <<PyFloat(5), PyInt(0)>>]

\* the call r of vnorm with the arguments a, made while the module is run
RunLastLine(a, r) ==
    /\ streams' = r.streams
    /\ consumed' = Record(consumed, r.taken)
    /\ ret' = [BlankRet EXCEPT !.fn = "vnorm", !.status = r.status, !.site = r.site,
                               !.n = a.n, !.stream = a.stream,
                               !.antithetic = a.antithetic, !.as_dict = a.as_dict,
                               !.par = a.par, !.shape = r.shape, !.u = r.u,
                               !.mapping = r.mapping, !.xshape = r.xshape, !.x = r.x]
    /\ pc' = IF r.status = "ok" THEN "loaded" ELSE "raised"

\* generators/__init__.py: "from .generators_continuous import vexp, vunif"
\* runs generators_continuous.py to its last line, the call of vnorm; an
\* exception of that call ends the import, otherwise the remaining imports
\* bind vbinom, _checkType and _checkRange
LoadVariates ==
    /\ pc = "generators"
    /\ RunLastLine(load_call,
                   variate("vnorm", streams, load_call, vnorm_checks(load_call)))
    /\ UNCHANGED <<salt, epoch, pkg>>

\* the import statement has returned or raised, and generators.py has run to
\* its end: its module object stays registered, and its two functions can be
\* called
GeneratorsLoaded == pc \in {"loaded", "raised"}

\* the import has returned or raised
LoadEnded == pc \in {"loaded", "raised", "no_module"}

LoadedSetSeed == GeneratorsLoaded /\ SetSeed

LoadedGenerateUniforms == GeneratorsLoaded /\ GenerateUniforms

NextLoad ==
    \/ LoadPackage
    \/ LoadGenerators
    \/ LoadVariates
    \/ LoadedSetSeed
    \/ LoadedGenerateUniforms

SpecLoad == InitLoad /\ [][NextLoad]_vars

\* ====================================================== stream engine claims
Vals(seq) == [k \in DOMAIN seq |-> seq[k][3]]

\* k plain draws from slot i of the table a first set_seed(s) builds from the
\* class as defined: the run with no history
FreshRun(s, i, k) ==
    draw_loop([status |-> "ok", u |-> <<>>, taken |-> <<>>,
               streams |-> rng_set_seed(NoneTable, s).streams],
              k, i, FALSE)

\* C1: the uniforms a stream has served since set_seed(s), and the generator it
\* is left with, are those of the same draws taken after a first set_seed(s) on
\* a table with no history, whatever was seeded and drawn before.
C1_Determinism ==
    epoch.kind = "int" =>
        \A i \in Slots :
            LET fresh == FreshRun(epoch.val, i, Len(consumed[i])) IN
            /\ Vals(consumed[i]) = fresh.u
            /\ streams[i] = fresh.streams[i]

\* a set_seed(s) that replaced a table already drawn from, and draws after it
C1_Witness ==
    /\ epoch.kind = "int"
    /\ epoch.after
    /\ \E i \in Slots : Len(consumed[i]) >= 2

IsGenerate(r) == r.fn = "_generateUniforms"

\* C2: a call _generateUniforms(n, i, antithetic) with n >= 1 on an initialised
\* stream i returns n values, the k-th the stream's k-th next output (or its
\* complement), moves stream i on by exactly n draws and leaves every other
\* stream as it was.
C2_Frame ==
    [][ (IsGenerate(ret') /\ ret'.n.val >= 1 /\ ret'.stream.val \in Slots
            /\ streams[ret'.stream.val].live)
        => LET i == ret'.stream.val
               n == ret'.n.val
               g == streams[i]
           IN /\ ret'.status = "ok"
              /\ Len(ret'.u) = n
              /\ \A k \in 1 .. n :
                    ret'.u[k] = IF ret'.antithetic.val = 1
                                THEN Scale - next_double(g.root, g.pos + k - 1)
                                ELSE next_double(g.root, g.pos + k - 1)
              /\ streams'[i] = [g EXCEPT !.pos = @ + n]
              /\ \A j \in Slots \ {i} : streams'[j] = streams[j] /\ consumed'[j] = consumed[j]
              /\ Len(consumed'[i]) = Len(consumed[i]) + n ]_vars

\* a list call on one stream while another stream has served draws too
C2_Witness ==
    /\ IsGenerate(ret) /\ ret.status = "ok" /\ ret.n.val >= 2
    /\ \E j \in Slots \ {ret.stream.val} : consumed[j] # <<>>

Places(seq) == {<<seq[k][1], seq[k][2]>> : k \in DOMAIN seq}

\* C3: right after set_seed, slot k holds the root generator jumped k times;
\* and while every stream has served fewer draws than one jump is long, no
\* place of the root sequence has been served by two slots.
C3_NoOverlap ==
    /\ (ret.fn = "set_seed" /\ ret.status = "ok")
       => \A k \in Slots :
             streams[k] = [live |-> TRUE, root |-> epoch.val, pos |-> k * JumpLen]
    /\ (\A i \in Slots : Len(consumed[i]) < JumpLen)
       => \A i, j \in Slots : i # j => Places(consumed[i]) \cap Places(consumed[j]) = {}

\* every stream has served draws, each one fewer than a jump
C3_Witness ==
    \A i \in Slots : consumed[i] # <<>> /\ Len(consumed[i]) = JumpLen - 1

Seeded == \A i \in Slots : streams[i].live

\* C5: a draw asked of a seeded table with a stream index outside
\* 0..num_streams-1 fails with IndexError.
C5_OutOfBounds ==
    (IsGenerate(ret) /\ ret.n.val >= 1 /\ ret.stream.val \notin Slots /\ Seeded)
        => ret.status = "IndexError"

\* C9: from one state, the antithetic call returns, place by place, 1 minus
\* what the plain call returns, and both leave the table in the same state,
\* the one the call taken leaves.
C9_Antithetic ==
    [][ (IsGenerate(ret') /\ ret'.status = "ok" /\ ret'.n.val >= 1)
        => LET n     == ret'.n.val
               anti  == generateUniforms(streams, n, ret'.stream.val, TRUE)
               plain == generateUniforms(streams, n, ret'.stream.val, FALSE)
           IN /\ ret'.u = IF ret'.antithetic.val = 1 THEN anti.u ELSE plain.u
              /\ Len(anti.u) = n /\ Len(plain.u) = n
              /\ \A k \in 1 .. n : anti.u[k] = Scale - plain.u[k]
              /\ anti.streams = plain.streams
              /\ streams' = anti.streams ]_vars

\* an antithetic list call that returned
C9_Witness ==
    IsGenerate(ret) /\ ret.status = "ok" /\ ret.antithetic.val = 1 /\ ret.n.val >= 2

\* C10: every uniform _generateUniforms returns for a stream index in bounds
\* lies in [0,1), with the antithetic flag false or true.
C10_UnitInterval ==
    (IsGenerate(ret) /\ ret.status = "ok" /\ ret.stream.val \in Slots)
        => \A k \in DOMAIN ret.u : 0 <= ret.u[k] /\ ret.u[k] < Scale

\* ================================================= variate function claims
IsVariate(r) == r.fn \in {"vunif", "vexp", "vbinom", "vnorm"}

\* the arguments have the kinds the signatures ask for
WellTyped(r) ==
    /\ r.n.kind = "int" /\ r.stream.kind = "int"
    /\ r.antithetic.kind = "bool" /\ r.as_dict.kind = "bool"
    /\ \A k \in DOMAIN r.par : r.par[k].kind \in {"int", "float"}

\* C4: a call of a variate function that raises has drawn nothing: the table
\* is as it was before the call.
C4_NoDrawOnError ==
    [][ (IsVariate(ret') /\ ret'.status # "ok") => streams' = streams ]_vars

\* the out-of-range arguments the specification lists
Listed(r) ==
    \/ r.n.val = 0
    \/ r.stream.val = -1
    \/ r.stream.val = num_streams
    \/ r.fn = "vexp"   /\ Twice(r.par[1]) = 0
    \/ r.fn = "vbinom" /\ (Twice(r.par[2]) = 0 \/ Twice(r.par[2]) > 2)
    \/ r.fn = "vnorm"  /\ Twice(r.par[2]) = 0

\* every argument within the bounds its function documents
InBounds(r) ==
    /\ r.n.val >= 1
    /\ r.stream.val \in Slots
    /\ r.fn = "vunif"  => Twice(r.par[1]) <= Twice(r.par[2])
    /\ r.fn = "vexp"   => Twice(r.par[1]) > 0
    /\ r.fn = "vbinom" => r.par[1].val >= 0 /\ Twice(r.par[2]) > 0 /\ Twice(r.par[2]) <= 2
    /\ r.fn = "vnorm"  => Twice(r.par[2]) > 0

RangeError(r) == r.status = "ValueError" /\ r.site = "range"

\* C6: a well-typed call with n = 0, stream = -1, stream = numStreams(),
\* rate = 0, prob = 0, prob > 1 or sd = 0 raises the range error, and a
\* well-typed call with every argument in bounds is not rejected by a range
\* check.
C6_Bounds ==
    (IsVariate(ret) /\ WellTyped(ret))
        => /\ Listed(ret) => RangeError(ret)
           /\ InBounds(ret) => ~RangeError(ret)

\* vexp with rate = 0 and everything else in bounds, rejected
C6_Witness ==
    /\ ret.fn = "vexp" /\ WellTyped(ret)
    /\ Twice(ret.par[1]) = 0 /\ ret.n.val >= 1 /\ ret.stream.val \in Slots
    /\ RangeError(ret)

\* C7: a call in which n or stream is not an integer, or antithetic or as_dict
\* is not a boolean, raises TypeError.
C7_Types ==
    (IsVariate(ret)
        /\ (\/ ret.n.kind # "int" \/ ret.stream.kind # "int"
            \/ ret.antithetic.kind # "bool" \/ ret.as_dict.kind # "bool"))
        => ret.status = "TypeError"

\* C8: a call with valid arguments that returns gives a scalar for n = 1 and
\* a list of n elements for n > 1; with as_dict true it gives a mapping whose
\* "u" and "x" are both lists of length n, x[k] the quantile image of u[k].
C8_Shape ==
    (IsVariate(ret) /\ WellTyped(ret) /\ InBounds(ret) /\ ret.status = "ok")
        => LET n == ret.n.val IN
           /\ ret.mapping = (ret.as_dict.val = 1)
           /\ Len(ret.x) = n
           /\ ~ret.mapping => ret.xshape = (IF n = 1 THEN "scalar" ELSE "list")
           /\ ret.mapping =>
                /\ ret.shape = "list" /\ ret.xshape = "list"
                /\ Len(ret.u) = n
                /\ \A k \in 1 .. n : ret.x[k] = ppf(ret.fn, ret.par, ret.u[k])

\* ========================================================== default state
\* no set_seed call of the caller has completed
Unseeded == epoch.kind = "none"

\* the import has ended and nothing has been called since
JustLoaded == LoadEnded /\ ret.fn \in {"import generators", "vnorm"}

\* calls of vunif with every argument valid
ValidCalls ==
    {[n |-> PyInt(n), stream |-> PyInt(st), antithetic |-> PyBool(FALSE),
      as_dict |-> PyBool(FALSE), par |-> <<PyFloat(0), PyFloat(2)>>] :
        n \in 1 .. MaxN, st \in Slots}

\* C11: once the import of the package has ended and before any explicit
\* set_seed call, the package is loaded, every entry of the table the variate
\* functions draw from is an initialised generator (none is the None
\* placeholder), loading has consumed no draw, and a call of a variate
\* function with valid arguments succeeds.
C11_DefaultState ==
    (JustLoaded /\ Unseeded)
        => /\ pc = "loaded"
           /\ \A i \in Slots : streams[i] # NoneGen
           /\ \A i \in Slots : consumed[i] = <<>>
           /\ \A a \in ValidCalls :
                variate("vunif", streams, a, vunif_checks(a)).status = "ok"

====
